---- MODULE Spec2Model ----
(***************************************************************************)
(* Model of the request handlers of nooktrip-backend.                       *)
(*                                                                         *)
(* Spec: the itinerary-generation handler                                   *)
(* (NOOK-FUNCTIONS/itineraries/lambda_function.py): the request handler,    *)
(* the per-itinerary route-map enrichment, the directions calls, the        *)
(* marker/path encoders and the static-image fetch.                         *)
(* SpecEncoders: encoding_points and encoding_path applied to bounded       *)
(* inputs.                                                                  *)
(* SpecEmail: the email handler (NOOK-FUNCTIONS/emails/lambda_function.py)  *)
(* over a sequence of requests.                                             *)
(* SpecFeedback: the feedback handler                                       *)
(* (NOOK-FUNCTIONS/feedbacks/feedback_lambda_function.py) over a sequence   *)
(* of requests.                                                             *)
(*                                                                         *)
(* Strings that the code assembles are sequences of atoms (records with a  *)
(* field t): a marker token, a path token, a separator, or a URL-escaped   *)
(* atom.  A dict is a function from its keys.                              *)
(***************************************************************************)
EXTENDS Integers, Sequences, FiniteSets, TLC

\* Bounds of the model.
MaxBatch == 2
MaxStops == 3
MaxCoords == 4
MaxPaths == 3

VARIABLES
    pc,                \* position of lambda_handler
    event,             \* the incoming event (what json.loads / validate_input see)
    secrets,           \* module-level secrets mapping
    llm_output,        \* what generate_itinerary returned (never modified)
    response_data,     \* the parsed itineraries, modified in place
    k,                 \* index of the itinerary the for-loop is at (0: not entered)
    coordinates,       \* generate_route_map: [lon, lat] per stop
    modes,             \* generate_route_map: one mode per segment
    paths_coordinates, \* static_map_image: geometries collected so far
    seg,               \* static_map_image: loop index i (1-based)
    inflight,          \* directions requests sent and not yet answered
    maxInflight,       \* history: largest number of outstanding directions calls of the current render
    attempts,          \* history: attempts made per segment of the current render
    answered,          \* history: last response kind seen per segment
    service,           \* environment: how the directions service answers each segment called so far, attempt by attempt
    image_service,     \* environment: how the image service answers this render ("none": not asked)
    dirCalls,          \* history: directions requests of the current render
    imgCalls,          \* history: image requests of the current render
    base64_map,        \* value generate_route_map returned to lambda_handler
    failed,            \* history: itineraries whose map enrichment failed
    statusCode,        \* statusCode of the returned response (0: none yet)
    body,              \* body of the returned response
    log,               \* log records written
    \* the encoders on their own
    enc_pc,            \* "input": not applied yet; "done": applied
    enc_task,          \* which encoder the input is for
    enc_coordinates,   \* encoding_points: coordinates
    enc_paths,         \* encoding_path: paths_coordinates
    enc_modes,         \* encoding_path: modes
    encoded_points,    \* value returned by encoding_points
    encoded_points_zops, \* value returned by encoding_points of Zops/static_map.py
    encoded_path,      \* value returned by encoding_path
    \* the email handler
    em_pc,             \* "idle": between requests; "save", "send": inside lambda_handler
    em_rows,           \* table selected_itineraries: the committed rows
    em_sent,           \* messages the SMTP server accepted
    em_history,        \* one record per request, the last one being the current request
    \* the feedback handler
    fb_pc,             \* "idle": between requests; "insert": at the try block
    fb_rows,           \* table itinerary_feedback: the committed rows
    fb_session,        \* objects added to the open session, not committed
    fb_history         \* one record per request, the last one being the current request

itineraryVars == <<pc, event, secrets, llm_output, response_data, k, coordinates,
                   modes, paths_coordinates, seg, inflight, maxInflight, attempts,
                   answered, service, image_service, dirCalls, imgCalls, base64_map,
                   failed, statusCode, body, log>>

encoderVars == <<enc_pc, enc_task, enc_coordinates, enc_paths, enc_modes,
                 encoded_points, encoded_points_zops, encoded_path>>

emailVars == <<em_pc, em_rows, em_sent, em_history>>

feedbackVars == <<fb_pc, fb_rows, fb_session, fb_history>>

\* what the itinerary handler does not touch
outsideItineraries == <<encoderVars, emailVars, feedbackVars>>

\* what the encoders do not touch
outsideEncoders == <<itineraryVars, emailVars, feedbackVars>>

\* what the email handler does not touch
outsideEmail == <<itineraryVars, encoderVars, feedbackVars>>

\* what the feedback handler does not touch
outsideFeedback == <<itineraryVars, encoderVars, emailVars>>

vars == <<itineraryVars, encoderVars, emailVars, feedbackVars>>

None == [t |-> "None"]

----------------------------------------------------------------------------
\* Data the handler works on.

\* str.lower() on the transport mode strings of the model.
lower(s) == CASE s = "Ferry" -> "ferry"
              [] s = "Walking" -> "walking"
              [] OTHER -> s

TransportModeStrings == {"walking", "cycling", "driving", "ferry", "Ferry", "bus"}

\* One comma-separated part of a coordinate string: the text of a number, or
\* text that float() rejects.
Num(v) == [numeric |-> TRUE, v |-> v]
Text == [numeric |-> FALSE, v |-> 0]

\* The "latitude,longitude" string of stop i, as its comma-separated parts.
StopCoordinateString(i) == <<Num(40 + i), Num(0 - (70 + i))>>

\* Coordinate strings that are not "number,number".
MalformedCoordinateString(i) ==
    IF i = 1 THEN <<Text, Num(0 - (70 + i))>> ELSE <<Num(40 + i)>>

Stop(i) ==
    [location_title |-> i, location_address |-> i, duration |-> "1h",
     cost |-> 10, currency |-> "CAD",
     google_map_coordinates |-> StopCoordinateString(i)]

Itinerary(n, m) ==
    [stops |-> [i \in 1..n |-> Stop(i)],
     total_duration |-> "4h", total_cost |-> 10 * n, location_currency |-> "CAD",
     summary |-> "s", package_name |-> <<n, m>>, start |-> "a", end |-> "b",
     total_distance |-> "1km", transport_mode |-> m]

\* A two-stop itinerary whose stop p has a malformed coordinate string.
ItineraryWithMalformedStop(p) ==
    [Itinerary(2, "walking") EXCEPT
        !.stops[p].google_map_coordinates = MalformedCoordinateString(p)]

Itineraries ==
    {Itinerary(n, m) : n \in 1..MaxStops, m \in TransportModeStrings}
    \cup {ItineraryWithMalformedStop(p) : p \in 1..2}

\* Response.itineraries: the batches the language model can return.
Batches == UNION {[1..b -> Itineraries] : b \in 1..MaxBatch}

Events == {[json_ok |-> FALSE, city |-> "", budget |-> 0],
           [json_ok |-> TRUE, city |-> "", budget |-> 50],
           [json_ok |-> TRUE, city |-> "Toronto", budget |-> 0],
           [json_ok |-> TRUE, city |-> "Toronto", budget |-> 50]}

validate_input(data) ==
    (IF data.city = "" THEN {"city"} ELSE {}) \cup
    (IF data.budget = 0 THEN {"budget"} ELSE {})

----------------------------------------------------------------------------
\* The directions service and direction_path.

\* What the directions service sends back, by kind.
DirectionsResponse(kind, request) ==
    CASE kind = "ok" ->
           [exception |-> FALSE, status_code |-> 200, has_routes |-> TRUE,
            routes |-> <<[geometry |-> [t |-> "polyline", from |-> request.start,
                                        to |-> request.end, mode |-> request.mode]]>>]
      [] kind = "noroute" ->
           [exception |-> FALSE, status_code |-> 200, has_routes |-> TRUE, routes |-> <<>>]
      [] kind = "ratelimit" ->
           [exception |-> FALSE, status_code |-> 429, has_routes |-> FALSE, routes |-> <<>>]
      [] kind = "upstream" ->
           [exception |-> FALSE, status_code |-> 500, has_routes |-> FALSE, routes |-> <<>>]
      [] OTHER ->
           [exception |-> TRUE, status_code |-> 0, has_routes |-> FALSE, routes |-> <<>>]

\* The answers of the service to successive attempts on one segment; the
\* last entry repeats.
ServiceScripts == {<<"ok">>, <<"ratelimit", "ok">>, <<"exception", "ok">>,
                   <<"noroute">>, <<"upstream">>}

ServiceAnswer(script, attempt) ==
    script[IF attempt < Len(script) THEN attempt ELSE Len(script)]

Raise(e) == [raised |-> TRUE, value |-> e]
Return(v) == [raised |-> FALSE, value |-> v]

DirectionsRequest(start_coordinates, end_coordinates, mode) ==
    [mode |-> mode,
     start |-> <<start_coordinates[1], start_coordinates[2]>>,
     end |-> <<end_coordinates[1], end_coordinates[2]>>]

\* direction_path with a lookup that yields None where the response has no
\* 'routes' key, instead of raising.
direction_path_missing_key_is_none(response) ==
    IF response.exception THEN Raise("RequestException")
    ELSE IF ~response.has_routes THEN Return(None)
    ELSE IF Len(response.routes) = 0 THEN Raise("IndexError")
    ELSE Return(response.routes[1].geometry)

\* direction_path that yields None for an empty route list, instead of raising.
direction_path_no_route_is_none(response) ==
    IF response.exception THEN Raise("RequestException")
    ELSE IF ~response.has_routes THEN Raise("KeyError")
    ELSE IF Len(response.routes) = 0 THEN Return(None)
    ELSE Return(response.routes[1].geometry)

\* direction_path, from the response of requests.get on.
direction_path(response) ==
    IF response.exception THEN Raise("RequestException")
    ELSE IF ~response.has_routes THEN Raise("KeyError")
    ELSE IF Len(response.routes) = 0 THEN Raise("IndexError")
    ELSE Return(response.routes[1].geometry)

----------------------------------------------------------------------------
\* The encoders.

Sep == [t |-> "sep"]

Pin(size, label, color, coordinate) ==
    [t |-> "pin", size |-> size, label |-> label, color |-> color,
     lon |-> coordinate[1], lat |-> coordinate[2]]

\* encoding_points whose test for the last coordinate is off by one
RECURSIVE encoding_points_from_last_off_by_one(_, _)
encoding_points_from_last_off_by_one(coords, i) ==
    IF i > Len(coords) THEN <<>>
    ELSE (IF i = 1 THEN <<Pin("l", i, "26a269", coords[i]), Sep>>
          ELSE IF i = Len(coords) + 1 THEN <<Pin("l", i, "ff0000", coords[i])>>
          ELSE <<Pin("s", i, "555555", coords[i]), Sep>>)
         \o encoding_points_from_last_off_by_one(coords, i + 1)

RECURSIVE encoding_points_from(_, _)
encoding_points_from(coords, i) ==
    IF i > Len(coords) THEN <<>>
    ELSE (IF i = 1 THEN <<Pin("l", i, "26a269", coords[i]), Sep>>
          ELSE IF i = Len(coords) THEN <<Pin("l", i, "ff0000", coords[i])>>
          ELSE <<Pin("s", i, "555555", coords[i]), Sep>>)
         \o encoding_points_from(coords, i + 1)

encoding_points(coords) == encoding_points_from(coords, 1)

\* encoding_points of Zops/static_map.py: the label is chr(97 + i), i from 0
RECURSIVE zops_encoding_points_from(_, _)
zops_encoding_points_from(coords, i) ==
    IF i > Len(coords) THEN <<>>
    ELSE (IF i = 1 THEN <<Pin("l", [chr |-> 96 + i], "26a269", coords[i]), Sep>>
          ELSE IF i = Len(coords) THEN <<Pin("l", [chr |-> 96 + i], "ff0000", coords[i])>>
          ELSE <<Pin("s", [chr |-> 96 + i], "555555", coords[i]), Sep>>)
         \o zops_encoding_points_from(coords, i + 1)

zops_encoding_points(coords) == zops_encoding_points_from(coords, 1)

STROKE_WIDTH == 3

Path(color, geometry) ==
    [t |-> "path", width |-> STROKE_WIDTH, color |-> color, geometry |-> geometry]

\* encoding_path with the colors of walking and cycling exchanged
RECURSIVE encoding_path_from_colors_swapped(_, _, _)
encoding_path_from_colors_swapped(paths, ms, i) ==
    IF i > Len(paths) THEN <<>>
    ELSE (IF ms[i] = "driving" THEN <<Path("2bff00", paths[i]), Sep>>
          ELSE IF ms[i] = "walking" THEN <<Path("ff0000", paths[i]), Sep>>
          ELSE IF ms[i] = "cycling" THEN <<Path("0000ff", paths[i]), Sep>>
          ELSE <<Path("", paths[i]), Sep>>)
         \o encoding_path_from_colors_swapped(paths, ms, i + 1)

RECURSIVE encoding_path_from(_, _, _)
encoding_path_from(paths, ms, i) ==
    IF i > Len(paths) THEN <<>>
    ELSE (IF ms[i] = "driving" THEN <<Path("2bff00", paths[i]), Sep>>
          ELSE IF ms[i] = "walking" THEN <<Path("0000ff", paths[i]), Sep>>
          ELSE IF ms[i] = "cycling" THEN <<Path("ff0000", paths[i]), Sep>>
          ELSE <<Path("", paths[i]), Sep>>)
         \o encoding_path_from(paths, ms, i + 1)

\* encoded_path[:-1]
DropLast(s) == IF Len(s) = 0 THEN s ELSE SubSeq(s, 1, Len(s) - 1)

encoding_path(paths, ms) == DropLast(encoding_path_from(paths, ms, 1))

\* urllib.parse.quote: every atom of the string is escaped.
quote(s) == [i \in 1..Len(s) |-> [t |-> "quoted", of |-> s[i]]]

\* The image request of static_map_image.
image_url(coords, paths, ms, size, access_token) ==
    [overlay |-> quote(encoding_path(paths, ms)) \o <<Sep>> \o encoding_points(coords),
     viewport |-> "auto", size |-> size, retina |-> "@2x",
     access_token |-> access_token]

ImageAnswers == {"ok", "error", "exception"}

ImageResponse(kind) ==
    CASE kind = "ok" -> [exception |-> FALSE, status_code |-> 200, content |-> "PNG"]
      [] kind = "error" -> [exception |-> FALSE, status_code |-> 422, content |-> "msg"]
      [] OTHER -> [exception |-> TRUE, status_code |-> 0, content |-> ""]

b64encode(content) == [t |-> "base64", of |-> content]

\* static_map_image without the status check of the image response.
static_map_image_result_unchecked(response) ==
    IF response.exception THEN Raise("RequestException")
    ELSE Return(b64encode(response.content))

\* static_map_image, from the response of the image fetch on.
static_map_image_result(response) ==
    IF response.exception THEN Raise("RequestException")
    ELSE IF response.status_code = 200 THEN Return(b64encode(response.content))
    ELSE Return(None)

----------------------------------------------------------------------------
\* generate_route_map and add_paths_to_itinerary.

\* the coordinate kept in the order of the string
parse_coordinate_no_swap(s) ==
    IF Len(s) # 2 \/ \E i \in 1..Len(s) : ~s[i].numeric
    THEN Raise("ValueError")
    ELSE Return(<<s[1].v, s[2].v>>)

\* lat, lon = map(float, s.split(',')); coordinates.append([lon, lat])
parse_coordinate(s) ==
    IF Len(s) # 2 \/ \E i \in 1..Len(s) : ~s[i].numeric
    THEN Raise("ValueError")
    ELSE Return(<<s[2].v, s[1].v>>)

\* the loop over the stops with a stop that does not parse left out
RECURSIVE route_coordinates_skipping_from(_, _)
route_coordinates_skipping_from(itinerary, i) ==
    IF i > Len(itinerary.stops) THEN <<>>
    ELSE LET c == parse_coordinate(itinerary.stops[i].google_map_coordinates)
         IN (IF c.raised THEN <<>> ELSE <<c.value>>)
            \o route_coordinates_skipping_from(itinerary, i + 1)

route_coordinates_skipping(itinerary) ==
    Return(route_coordinates_skipping_from(itinerary, 1))

\* lines 263-265: the loop over the stops
route_coordinates(itinerary) ==
    IF \E i \in 1..Len(itinerary.stops) :
          parse_coordinate(itinerary.stops[i].google_map_coordinates).raised
    THEN Raise("ValueError")
    ELSE Return([i \in 1..Len(itinerary.stops) |->
                    parse_coordinate(itinerary.stops[i].google_map_coordinates).value])

MapModes == {"walking", "cycling", "driving"}

\* the mode selection without the ferry branch
route_mode_no_ferry_branch(transport_mode) ==
    IF lower(transport_mode) \notin MapModes THEN "walking"
    ELSE lower(transport_mode)

\* the mode selection without the default for unknown modes
route_mode_no_default(transport_mode) ==
    IF lower(transport_mode) = "ferry" THEN "driving"
    ELSE lower(transport_mode)

route_mode(transport_mode) ==
    IF lower(transport_mode) = "ferry" THEN "driving"
    ELSE IF lower(transport_mode) \notin MapModes THEN "walking"
    ELSE lower(transport_mode)

route_mode_warns(transport_mode) ==
    lower(transport_mode) # "ferry" /\ lower(transport_mode) \notin MapModes

\* add_paths_to_itinerary storing the link under a key the stop already has
add_paths_to_itinerary_wrong_key(itinerary) ==
    [itinerary EXCEPT !.stops =
        [i \in 1..Len(itinerary.stops) |->
            [itinerary.stops[i] EXCEPT !.location_address =
                (IF i < Len(itinerary.stops)
                 THEN [t |-> "gmaps_dir",
                       from |-> itinerary.stops[i].google_map_coordinates,
                       to |-> itinerary.stops[i + 1].google_map_coordinates]
                 ELSE None)]]]

add_paths_to_itinerary(itinerary) ==
    [itinerary EXCEPT !.stops =
        [i \in 1..Len(itinerary.stops) |->
            ("path_to_next" :>
                (IF i < Len(itinerary.stops)
                 THEN [t |-> "gmaps_dir",
                       from |-> itinerary.stops[i].google_map_coordinates,
                       to |-> itinerary.stops[i + 1].google_map_coordinates]
                 ELSE None))
            @@ itinerary.stops[i]]]

LogRecord(level, msg, i) == [level |-> level, msg |-> msg, itinerary |-> i]

----------------------------------------------------------------------------
\* The handler.

EncodersIdle ==
    /\ enc_pc = "idle"
    /\ enc_task = "none"
    /\ enc_coordinates = <<>>
    /\ enc_paths = <<>>
    /\ enc_modes = <<>>
    /\ encoded_points = <<>>
    /\ encoded_points_zops = <<>>
    /\ encoded_path = <<>>

EmailIdle ==
    /\ em_pc = "idle"
    /\ em_rows = <<>>
    /\ em_sent = <<>>
    /\ em_history = <<>>

FeedbackIdle ==
    /\ fb_pc = "idle"
    /\ fb_rows = <<>>
    /\ fb_session = <<>>
    /\ fb_history = <<>>

Init ==
    /\ EncodersIdle
    /\ EmailIdle
    /\ FeedbackIdle
    /\ pc = "start"
    /\ event \in Events
    /\ secrets \in {[MAPBOX_TOKEN |-> "tok"], [MAPBOX_TOKEN |-> ""]}
    /\ llm_output = <<>>
    /\ response_data = <<>>
    /\ k = 0
    /\ coordinates = <<>>
    /\ modes = <<>>
    /\ paths_coordinates = <<>>
    /\ seg = 0
    /\ inflight = {}
    /\ maxInflight = 0
    /\ attempts = <<>>
    /\ answered = <<>>
    /\ service = <<>>
    /\ image_service = "none"
    /\ dirCalls = <<>>
    /\ imgCalls = <<>>
    /\ base64_map = None
    /\ failed = {}
    /\ statusCode = 0
    /\ body = None
    /\ log = {}

renderVars == <<coordinates, modes, paths_coordinates, seg, inflight, maxInflight,
                attempts, answered, service, image_service, dirCalls, imgCalls,
                base64_map>>

Respond(code, b) ==
    /\ pc' = "done"
    /\ statusCode' = code
    /\ body' = b

\* lines 295-308: json.loads(event['body']) and validate_input
ReceiveEvent ==
    /\ UNCHANGED outsideItineraries
    /\ pc = "start"
    /\ IF ~event.json_ok
       THEN /\ Respond(400, "Invalid JSON in request body")
            /\ log' = log \cup {LogRecord("error", "Invalid JSON in event body", 0)}
       ELSE IF validate_input(event) # {}
       THEN /\ Respond(400, validate_input(event))
            /\ log' = log \cup {LogRecord("warning", "Input validation failed", 0)}
       ELSE /\ pc' = "generate"
            /\ UNCHANGED <<statusCode, body, log>>
    /\ UNCHANGED <<event, secrets, llm_output, response_data, k, failed>>
    /\ UNCHANGED renderVars

\* the except clause of lines 340-345
HandlerExcept(e, i) ==
    /\ Respond(500, <<"An error occurred while processing your request", e>>)
    /\ log' = log \cup {LogRecord("error", "Error in lambda_handler", i)}

\* lines 311-323: the language model fails
GenerateItineraryFails ==
    /\ UNCHANGED outsideItineraries
    /\ pc = "generate"
    /\ HandlerExcept("OpenAIError", k)
    /\ UNCHANGED <<event, secrets, llm_output, response_data, k, failed>>
    /\ UNCHANGED renderVars

\* lines 311-323: the language model answers
GenerateItinerary ==
    /\ UNCHANGED outsideItineraries
    /\ pc = "generate"
    /\ \E b \in Batches :
         /\ llm_output' = b
         /\ response_data' = b
    /\ IF secrets.MAPBOX_TOKEN = ""
       THEN /\ Respond(500, "Missing Mapbox configuration")
            /\ log' = log \cup {LogRecord("error", "Mapbox token not found in secrets", 0)}
            /\ k' = k
       ELSE /\ pc' = "loop"
            /\ k' = 0
            /\ UNCHANGED <<statusCode, body, log>>
    /\ UNCHANGED <<event, secrets, failed>>
    /\ UNCHANGED renderVars

\* lines 326-328 and 259-280, up to the first network call
EnrichItinerary ==
    /\ UNCHANGED outsideItineraries
    /\ pc = "loop"
    /\ k < Len(response_data)
    /\ k' = k + 1
    /\ LET it == add_paths_to_itinerary(response_data[k + 1])
           parsed == route_coordinates(it)
           cs == parsed.value
           m  == route_mode(it.transport_mode)
       IN /\ response_data' = [response_data EXCEPT ![k + 1] = it]
          /\ IF parsed.raised
             THEN \* line 264 raises: the except clause of the handler
                  /\ HandlerExcept(parsed.value, k + 1)
                  /\ failed' = failed \cup {k + 1}
                  /\ coordinates' = <<>>
                  /\ modes' = <<>>
                  /\ attempts' = <<>>
                  /\ answered' = <<>>
                  /\ seg' = 0
             ELSE /\ coordinates' = cs
                  /\ modes' = [i \in 1..(Len(cs) - 1) |-> m]
                  /\ log' = IF route_mode_warns(it.transport_mode)
                            THEN log \cup {LogRecord("warning", "Invalid transport mode", k + 1)}
                            ELSE log
                  /\ attempts' = [i \in 1..(Len(cs) - 1) |-> 0]
                  /\ answered' = [i \in 1..(Len(cs) - 1) |-> "none"]
                  /\ seg' = 1
                  /\ pc' = "static_map_image"
                  /\ UNCHANGED <<failed, statusCode, body>>
    /\ service' = <<>>
    /\ image_service' = "none"
    /\ paths_coordinates' = <<>>
    /\ inflight' = {}
    /\ maxInflight' = 0
    /\ dirCalls' = <<>>
    /\ imgCalls' = <<>>
    /\ base64_map' = None
    /\ UNCHANGED <<event, secrets, llm_output>>

\* lines 77-78 and 20-26: the request of direction_path for pair seg is sent
CallDirections ==
    /\ UNCHANGED outsideItineraries
    /\ pc = "static_map_image"
    /\ inflight = {}
    /\ seg <= Len(coordinates) - 1
    /\ inflight' = {seg}
    /\ maxInflight' = IF maxInflight < Cardinality(inflight')
                      THEN Cardinality(inflight') ELSE maxInflight
    /\ attempts' = [attempts EXCEPT ![seg] = @ + 1]
    /\ \E script \in ServiceScripts : service' = Append(service, script)
    /\ dirCalls' = Append(dirCalls,
           DirectionsRequest(coordinates[seg], coordinates[seg + 1], modes[seg]))
    /\ UNCHANGED <<pc, event, secrets, llm_output, response_data, k, coordinates,
                   modes, paths_coordinates, seg, answered, image_service,
                   imgCalls, base64_map, failed, statusCode, body, log>>

\* lines 26-28 and 78: the response arrives
DirectionsReturn ==
    /\ UNCHANGED outsideItineraries
    /\ pc = "static_map_image"
    /\ inflight = {seg}
    /\ LET kind == ServiceAnswer(service[seg], attempts[seg])
           r == direction_path(DirectionsResponse(kind, dirCalls[Len(dirCalls)]))
       IN /\ answered' = [answered EXCEPT ![seg] = kind]
          /\ inflight' = {}
          /\ IF r.raised
             THEN /\ HandlerExcept(r.value, k)
                  /\ failed' = failed \cup {k}
                  /\ UNCHANGED <<paths_coordinates, seg>>
             ELSE /\ paths_coordinates' = Append(paths_coordinates, r.value)
                  /\ seg' = seg + 1
                  /\ UNCHANGED <<pc, statusCode, body, log, failed>>
    /\ UNCHANGED <<event, secrets, llm_output, response_data, k, coordinates, modes,
                   maxInflight, attempts, service, image_service, dirCalls, imgCalls,
                   base64_map>>

\* static_map_image returning early, without an image request, when there is
\* no segment
FetchImage_short_circuit ==
    /\ UNCHANGED outsideItineraries
    /\ pc = "static_map_image"
    /\ inflight = {}
    /\ seg > Len(coordinates) - 1
    /\ imgCalls' = IF Len(coordinates) - 1 = 0 THEN imgCalls
                   ELSE Append(imgCalls,
                            image_url(coordinates, paths_coordinates, modes, "500x400",
                                      secrets.MAPBOX_TOKEN))
    /\ image_service' \in ImageAnswers
    /\ pc' = IF Len(coordinates) - 1 = 0 THEN "attach" ELSE "image"
    /\ UNCHANGED <<event, secrets, llm_output, response_data, k, coordinates, modes,
                   paths_coordinates, seg, inflight, maxInflight, attempts, answered,
                   service, dirCalls, base64_map, failed, statusCode, body, log>>

\* lines 80-86: the composite request is built and sent
FetchImage ==
    /\ UNCHANGED outsideItineraries
    /\ pc = "static_map_image"
    /\ inflight = {}
    /\ seg > Len(coordinates) - 1
    /\ imgCalls' = Append(imgCalls,
           image_url(coordinates, paths_coordinates, modes, "500x400",
                     secrets.MAPBOX_TOKEN))
    /\ image_service' \in ImageAnswers
    /\ pc' = "image"
    /\ UNCHANGED <<event, secrets, llm_output, response_data, k, coordinates, modes,
                   paths_coordinates, seg, inflight, maxInflight, attempts, answered,
                   service, dirCalls, base64_map, failed, statusCode, body, log>>

\* lines 86-92 and 328: the image response arrives
ImageReturn ==
    /\ UNCHANGED outsideItineraries
    /\ pc = "image"
    /\ LET r == static_map_image_result(ImageResponse(image_service))
       IN IF r.raised
          THEN /\ HandlerExcept(r.value, k)
               /\ failed' = failed \cup {k}
               /\ UNCHANGED base64_map
          ELSE /\ base64_map' = r.value
               /\ pc' = "attach"
               /\ log' = IF r.value = None
                         THEN log \cup {LogRecord("error", "Failed to download map image", k)}
                         ELSE log
               /\ UNCHANGED <<statusCode, body, failed>>
    /\ UNCHANGED <<event, secrets, llm_output, response_data, k, coordinates, modes,
                   paths_coordinates, seg, inflight, maxInflight, attempts, answered,
                   service, image_service, dirCalls, imgCalls>>

\* lines 329-333
AttachMap ==
    /\ UNCHANGED outsideItineraries
    /\ pc = "attach"
    /\ IF base64_map # None
       THEN /\ response_data' = [response_data EXCEPT
                                    ![k] = ("map_image" :> base64_map) @@ @]
            /\ log' = log \cup {LogRecord("info", "Successfully generated map", k)}
            /\ UNCHANGED failed
       ELSE /\ log' = log \cup {LogRecord("warning", "Failed to generate map", k)}
            /\ failed' = failed \cup {k}
            /\ UNCHANGED response_data
    /\ pc' = "loop"
    /\ UNCHANGED <<event, secrets, llm_output, k, statusCode, body>>
    /\ UNCHANGED renderVars

\* lines 335-339
ReturnResponse ==
    /\ UNCHANGED outsideItineraries
    /\ pc = "loop"
    /\ k = Len(response_data)
    /\ Respond(200, response_data)
    /\ log' = log \cup {LogRecord("info", "Itineraries generated", 0)}
    /\ UNCHANGED <<event, secrets, llm_output, response_data, k, failed>>
    /\ UNCHANGED renderVars

Next ==
    \/ ReceiveEvent
    \/ GenerateItineraryFails
    \/ GenerateItinerary
    \/ EnrichItinerary
    \/ CallDirections
    \/ DirectionsReturn
    \/ FetchImage
    \/ ImageReturn
    \/ AttachMap
    \/ ReturnResponse

Spec == Init /\ [][Next]_vars

----------------------------------------------------------------------------
\* The encoders applied to bounded inputs.

SeqsUpTo(S, n) == UNION {[1..m -> S] : m \in 0..n}

CoordinatePool == {<<0 - 71, 41>>, <<0 - 72, 42>>}
GeometryPool == {"g1", "g2"}
EncoderModes == {"walking", "cycling", "driving", "bus"}

\* the itinerary handler at rest
ItinerariesIdle ==
    /\ pc = "start"
    /\ event = [json_ok |-> TRUE, city |-> "Toronto", budget |-> 50]
    /\ secrets = [MAPBOX_TOKEN |-> "tok"]
    /\ llm_output = <<>>
    /\ response_data = <<>>
    /\ k = 0
    /\ coordinates = <<>>
    /\ modes = <<>>
    /\ paths_coordinates = <<>>
    /\ seg = 0
    /\ inflight = {}
    /\ maxInflight = 0
    /\ attempts = <<>>
    /\ answered = <<>>
    /\ service = <<>>
    /\ image_service = "none"
    /\ dirCalls = <<>>
    /\ imgCalls = <<>>
    /\ base64_map = None
    /\ failed = {}
    /\ statusCode = 0
    /\ body = None
    /\ log = {}

InitEncoders ==
    /\ ItinerariesIdle
    /\ EmailIdle
    /\ FeedbackIdle
    /\ enc_pc = "input"
    /\ enc_task \in {"points", "paths"}
    /\ IF enc_task = "points"
       THEN /\ enc_coordinates \in SeqsUpTo(CoordinatePool, MaxCoords)
            /\ enc_paths = <<>>
            /\ enc_modes = <<>>
       ELSE /\ enc_coordinates = <<>>
            /\ \E pm \in SeqsUpTo(GeometryPool \X EncoderModes, MaxPaths) :
                  /\ enc_paths = [i \in 1..Len(pm) |-> pm[i][1]]
                  /\ enc_modes = [i \in 1..Len(pm) |-> pm[i][2]]
    /\ encoded_points = <<>>
    /\ encoded_points_zops = <<>>
    /\ encoded_path = <<>>

ApplyEncodingPoints ==
    /\ enc_pc = "input"
    /\ enc_task = "points"
    /\ encoded_points' = encoding_points(enc_coordinates)
    /\ encoded_points_zops' = zops_encoding_points(enc_coordinates)
    /\ enc_pc' = "done"
    /\ UNCHANGED <<enc_task, enc_coordinates, enc_paths, enc_modes, encoded_path>>
    /\ UNCHANGED outsideEncoders

ApplyEncodingPath ==
    /\ enc_pc = "input"
    /\ enc_task = "paths"
    /\ encoded_path' = encoding_path(enc_paths, enc_modes)
    /\ enc_pc' = "done"
    /\ UNCHANGED <<enc_task, enc_coordinates, enc_paths, enc_modes, encoded_points,
                   encoded_points_zops>>
    /\ UNCHANGED outsideEncoders

NextEncoders ==
    \/ ApplyEncodingPoints
    \/ ApplyEncodingPath

SpecEncoders == InitEncoders /\ [][NextEncoders]_vars

----------------------------------------------------------------------------
\* The email handler (emails/lambda_function.py): save the chosen itinerary,
\* then mail it.

MaxEmailRequests == 2

\* Request bodies: text that is not JSON, a JSON array, and JSON objects with
\* an email string and an itinerary.
EmailStrings == {"a@example.com", "not-an-email"}

EmailItineraries == {Itinerary(0, "walking"), Itinerary(2, "walking")}

EmailBodies ==
    {[t |-> "invalid", email |-> "", itinerary |-> None],
     [t |-> "list", email |-> "", itinerary |-> None]}
    \cup {[t |-> "dict", email |-> e, itinerary |-> it] :
             e \in EmailStrings, it \in EmailItineraries}

json_loads(b) ==
    IF b.t = "invalid" THEN Raise("JSONDecodeError") ELSE Return(b)

json_dumps(x) == [t |-> "json", of |-> x]

\* pydantic's EmailStr
EmailStr(e) == e = "a@example.com"

\* EmailRequest(**data): unpacking anything but a mapping raises TypeError,
\* which is not a ValueError and so leaves validate_input; a ValidationError is
\* a ValueError and becomes the "validation" entry of the result.
email_validate_input(data) ==
    IF data.t # "dict" THEN Raise("TypeError")
    ELSE IF ~EmailStr(data.email) THEN Return({"validation"})
    ELSE Return({})

Key(n) == [t |-> "int", v |-> n]

\* Python's `not x` for an Optional[int]
not_(x) == x = None \/ (x.t = "int" /\ x.v = 0)

\* What the database does with the insert: it stores one row, reports a row
\* count other than 1, or raises an SQLAlchemyError.
DbOutcomes == {"ok", "rowcount0", "error"}

\* save_itinerary that returns the new key without committing the row.
save_itinerary_without_commit(rows, email, itinerary, db) ==
    IF db = "ok"
    THEN [rows |-> rows, result |-> Key(Len(rows) + 1)]
    ELSE [rows |-> rows, result |-> None]

save_itinerary(rows, email, itinerary, db) ==
    IF db = "ok"
    THEN [rows |-> Append(rows, [id |-> Len(rows) + 1, email |-> email,
                                 itinerary_data |-> json_dumps(itinerary)]),
          result |-> Key(Len(rows) + 1)]
    ELSE [rows |-> rows, result |-> None]

TemplateFiles == {"present", "missing"}

SmtpOutcomes == {"accepted", "exception"}

Message(recipient, itinerary, itinerary_id) ==
    [To |-> recipient, Subject |-> itinerary.package_name,
     place_a |-> itinerary.stops[1].location_title,
     place_b |-> itinerary.stops[Len(itinerary.stops)].location_title,
     like_url |-> <<itinerary_id.v, "like">>,
     dislike_url |-> <<itinerary_id.v, "dislike">>]

send_email(recipient, itinerary, itinerary_id, template, smtp) ==
    IF template = "missing" THEN Return(FALSE)
    ELSE IF Len(itinerary.stops) = 0 THEN Raise("IndexError")
    ELSE IF smtp = "exception" THEN Return(FALSE)
    ELSE Return(TRUE)

EmailRecord(b) ==
    [request |-> b, save |-> "none", itinerary_id |-> None, send |-> "none",
     statusCode |-> 0, body |-> "", raised |-> ""]

em_current == em_history[Len(em_history)]

EmailFinish(h) ==
    /\ em_history' = [em_history EXCEPT ![Len(em_history)] = h]
    /\ em_pc' = "idle"

\* lambda_handler, lines 231-245: parse and validate the body.
EmailReceive ==
    /\ UNCHANGED outsideEmail
    /\ em_pc = "idle"
    /\ Len(em_history) < MaxEmailRequests
    /\ \E b \in EmailBodies :
         LET json_data == json_loads(b)
             errors == email_validate_input(json_data.value)
             h == EmailRecord(b)
         IN  IF json_data.raised
             THEN /\ em_history' = Append(em_history,
                        [h EXCEPT !.statusCode = 400,
                                  !.body = "Invalid JSON in request body"])
                  /\ em_pc' = "idle"
             ELSE IF errors.raised
             THEN /\ em_history' = Append(em_history,
                        [h EXCEPT !.raised = errors.value])
                  /\ em_pc' = "idle"
             ELSE IF errors.value # {}
             THEN /\ em_history' = Append(em_history,
                        [h EXCEPT !.statusCode = 400, !.body = "validation"])
                  /\ em_pc' = "idle"
             ELSE /\ em_history' = Append(em_history, h)
                  /\ em_pc' = "save"
    /\ UNCHANGED <<em_rows, em_sent>>

\* lambda_handler, lines 247-253
EmailSave ==
    /\ UNCHANGED outsideEmail
    /\ em_pc = "save"
    /\ \E db \in DbOutcomes :
         LET h == em_current
             saved == save_itinerary(em_rows, h.request.email,
                                     h.request.itinerary, db)
             itinerary_id == saved.result
         IN  /\ em_rows' = saved.rows
             /\ IF not_(itinerary_id)
                THEN EmailFinish([h EXCEPT !.save = "failed",
                                           !.itinerary_id = itinerary_id,
                                           !.statusCode = 500,
                                           !.body = "Failed to save itinerary"])
                ELSE /\ em_history' = [em_history EXCEPT ![Len(em_history)] =
                            [h EXCEPT !.save = "ok",
                                      !.itinerary_id = itinerary_id]]
                     /\ em_pc' = "send"
    /\ UNCHANGED em_sent

\* lambda_handler, lines 255-266
EmailSend ==
    /\ UNCHANGED outsideEmail
    /\ em_pc = "send"
    /\ \E template \in TemplateFiles, smtp \in SmtpOutcomes :
         LET h == em_current
             sent == send_email(h.request.email, h.request.itinerary,
                                h.itinerary_id, template, smtp)
         IN  IF sent.raised
             THEN /\ EmailFinish([h EXCEPT !.raised = sent.value])
                  /\ UNCHANGED em_sent
             ELSE IF ~sent.value
             THEN /\ EmailFinish([h EXCEPT !.send = "failed",
                                           !.statusCode = 500,
                                           !.body = "Failed to send email"])
                  /\ UNCHANGED em_sent
             ELSE /\ EmailFinish([h EXCEPT
                        !.send = "sent", !.statusCode = 200,
                        !.body = "Itinerary saved and email sent successfully"])
                  /\ em_sent' = Append(em_sent,
                        Message(h.request.email, h.request.itinerary,
                                h.itinerary_id))
    /\ UNCHANGED em_rows

InitEmail ==
    /\ ItinerariesIdle
    /\ EncodersIdle
    /\ EmailIdle
    /\ FeedbackIdle

NextEmail ==
    \/ EmailReceive
    \/ EmailSave
    \/ EmailSend

SpecEmail == InitEmail /\ [][NextEmail]_vars

----------------------------------------------------------------------------
\* The feedback handler (feedbacks/feedback_lambda_function.py): record a like
\* or a dislike against a saved itinerary.

MaxFeedbackRequests == 2

Str(s) == [t |-> "str", s |-> s]

\* A mapping of query string parameters, given by what its get returns for the
\* two names the handler asks for (None for a name that is not in it).
Params(itinerary_id, feedback) ==
    [t |-> "dict", itinerary_id |-> itinerary_id, feedback |-> feedback]

ItineraryIdStrings == {None, Str("7"), Str("abc")}

FeedbackStrings == {None, Str("like"), Str("Dislike"), Str("love")}

\* Events: without the queryStringParameters key, with the key and a null
\* value (a request that has no query string), with the key and a mapping.
FeedbackEvents ==
    {[has_queryStringParameters |-> FALSE, queryStringParameters |-> None],
     [has_queryStringParameters |-> TRUE, queryStringParameters |-> None]}
    \cup {[has_queryStringParameters |-> TRUE,
           queryStringParameters |-> Params(i, f)] :
             i \in ItineraryIdStrings, f \in FeedbackStrings}

\* event.get('queryStringParameters', {}): the default is used only when the
\* key is absent.
event_get_params(e) ==
    IF e.has_queryStringParameters THEN e.queryStringParameters
    ELSE Params(None, None)

\* params.get(name); None has no get.
params_get(params, name) ==
    IF params = None THEN Raise("AttributeError")
    ELSE Return(IF name = "itinerary_id" THEN params.itinerary_id
                ELSE params.feedback)

\* Python's `not x` for an Optional[str]
not_str(x) == x = None \/ x.s = ""

upper(s) ==
    CASE s = "like" -> "LIKE"
      [] s = "Dislike" -> "DISLIKE"
      [] s = "love" -> "LOVE"
      [] OTHER -> s

\* FeedbackType[name]
FeedbackType(name) ==
    CASE name = "LIKE" -> Return("like")
      [] name = "DISLIKE" -> Return("dislike")
      [] OTHER -> Raise("KeyError")

\* int(s)
int(x) ==
    IF x.s = "7" THEN Return(7) ELSE Raise("ValueError")

\* What the database does with the commit: it stores the row, or raises (the
\* itinerary does not exist, the connection is lost).
CommitOutcomes == {"committed", "exception"}

ItineraryFeedback(itinerary_id, feedback) ==
    [itinerary_id |-> itinerary_id, feedback |-> feedback]

FeedbackRecord(e) ==
    [event |-> e, feedback_type |-> "", statusCode |-> 0, body |-> "",
     raised |-> "", committed |-> 0]

fb_current == fb_history[Len(fb_history)]

FeedbackFinish(h) ==
    /\ fb_history' = [fb_history EXCEPT ![Len(fb_history)] = h]
    /\ fb_pc' = "idle"

\* lambda_handler, lines 17-38: read and validate the parameters.
FeedbackReceive ==
    /\ UNCHANGED outsideFeedback
    /\ fb_pc = "idle"
    /\ Len(fb_history) < MaxFeedbackRequests
    /\ \E e \in FeedbackEvents :
         LET params == event_get_params(e)
             itinerary_id == params_get(params, "itinerary_id")
             feedback == params_get(params, "feedback")
             feedback_type == FeedbackType(upper(feedback.value.s))
             h == FeedbackRecord(e)
         IN  IF itinerary_id.raised
             THEN /\ fb_history' = Append(fb_history,
                        [h EXCEPT !.raised = itinerary_id.value])
                  /\ fb_pc' = "idle"
             ELSE IF not_str(itinerary_id.value) \/ not_str(feedback.value)
             THEN /\ fb_history' = Append(fb_history,
                        [h EXCEPT !.statusCode = 400,
                                  !.body = "Missing required parameters"])
                  /\ fb_pc' = "idle"
             ELSE IF feedback_type.raised
             THEN /\ fb_history' = Append(fb_history,
                        [h EXCEPT !.statusCode = 400,
                                  !.body = "Invalid feedback type"])
                  /\ fb_pc' = "idle"
             ELSE /\ fb_history' = Append(fb_history,
                        [h EXCEPT !.feedback_type = feedback_type.value])
                  /\ fb_pc' = "add"
    /\ UNCHANGED <<fb_rows, fb_session>>

\* lambda_handler, lines 40-46: build the record and add it to the session; a
\* ValueError of int() goes to the except clause of lines 53-60.
FeedbackAdd ==
    /\ UNCHANGED outsideFeedback
    /\ fb_pc = "add"
    /\ LET h == fb_current
           id == int(h.event.queryStringParameters.itinerary_id)
       IN  IF id.raised
           THEN /\ fb_session' = <<>>
                /\ FeedbackFinish([h EXCEPT !.statusCode = 500,
                                            !.body = id.value])
           ELSE /\ fb_session' = Append(fb_session,
                      ItineraryFeedback(id.value, h.feedback_type))
                /\ fb_history' = fb_history
                /\ fb_pc' = "commit"
    /\ UNCHANGED fb_rows

\* lambda_handler, lines 47-60: commit, or roll back on an exception; the
\* session is closed either way.
FeedbackCommit ==
    /\ UNCHANGED outsideFeedback
    /\ fb_pc = "commit"
    /\ \E db \in CommitOutcomes :
         LET h == fb_current
         IN  IF db = "committed"
             THEN /\ fb_rows' = fb_rows \o fb_session
                  /\ FeedbackFinish([h EXCEPT
                        !.statusCode = 200,
                        !.body = "Feedback recorded successfully",
                        !.committed = Len(fb_session)])
             ELSE /\ fb_rows' = fb_rows
                  /\ FeedbackFinish([h EXCEPT !.statusCode = 500,
                                              !.body = "exception"])
    /\ fb_session' = <<>>

InitFeedback ==
    /\ ItinerariesIdle
    /\ EncodersIdle
    /\ EmailIdle
    /\ FeedbackIdle

NextFeedback ==
    \/ FeedbackReceive
    \/ FeedbackAdd
    \/ FeedbackCommit

SpecFeedback == InitFeedback /\ [][NextFeedback]_vars

----------------------------------------------------------------------------
\* Vocabulary of the properties.

nSegments == Len(coordinates) - 1

\* The pair of stops segment i connects, as the directions service sees it.
PairOf(i) == [start |-> coordinates[i], end |-> coordinates[i + 1]]

\* The path tokens and the marker tokens of a composite image request.
IsPathToken(a) == a.t = "quoted" /\ a.of.t = "path"
IsMarkerToken(a) == a.t = "pin"
PathTokens(request) == SelectSeq(request.overlay, IsPathToken)
MarkerTokens(request) == SelectSeq(request.overlay, IsMarkerToken)

FailureKinds == {"noroute", "ratelimit", "upstream", "exception"}
RetryableKinds == {"ratelimit", "exception"}

\* A directions call of the current render ended in failure.
DirectionsFailed == \E s \in DOMAIN answered : answered[s] \in FailureKinds

HasMap(itinerary) == "map_image" \in DOMAIN itinerary

\* The render of itinerary k is over: its value is back in lambda_handler,
\* or it raised.
RenderReturned == k >= 1 /\ (pc \in {"attach", "loop"} \/ (pc = "done" /\ statusCode = 200))
RenderRaised == k >= 1 /\ pc = "done" /\ statusCode = 500
RenderOver == RenderReturned \/ RenderRaised

\* C1: a map-enrichment failure of one itinerary leaves only that itinerary
\* without a map image; every other itinerary of the batch is enriched and
\* returned and the request is answered 200.
C1_FailureIsolatedPerItinerary ==
    (/\ pc = "done"
     /\ failed # {}
     /\ DirectionsFailed \/ image_service \in {"error", "exception"}) =>
        /\ statusCode = 200
        /\ body = response_data
        /\ \A j \in 1..Len(response_data) :
              HasMap(response_data[j]) <=> j \notin failed

\* C2: once the directions call of any pair has ended in failure, the render
\* has failed, no image request was sent for it and no map was produced from
\* the segments that did succeed.
C2_NoPartialMap ==
    DirectionsFailed =>
        /\ imgCalls = <<>>
        /\ base64_map = None
        /\ ~RenderReturned
        /\ k \in failed
        /\ ~HasMap(response_data[k])

C2_Witness ==
    /\ Len(coordinates) = 3
    /\ answered[1] = "ok"
    /\ answered[2] \in FailureKinds
    /\ Len(paths_coordinates) = 1
    /\ pc = "done"

\* C3: a segment gets at most 3 attempts, and a rate-limit response or a
\* transport exception on attempt 1 or 2 is followed by another attempt: a
\* segment whose call is over with such a failure has had all 3 attempts.
C3_RetryUpToThreeAttempts ==
    \A s \in DOMAIN attempts :
        /\ attempts[s] <= 3
        /\ (s \notin inflight /\ answered[s] \in RetryableKinds) => attempts[s] = 3

\* C4: a non-2xx, non-rate-limit response or a response without a route is
\* not retried: one attempt, an error (no null or empty geometry reaches the
\* path encoder), and the render fails.
C4_NoRetryOfUpstreamError ==
    /\ \A i \in 1..Len(paths_coordinates) :
          /\ paths_coordinates[i] # None
          /\ paths_coordinates[i].t = "polyline"
    /\ \A s \in DOMAIN answered :
          answered[s] \in {"upstream", "noroute"} =>
              /\ attempts[s] = 1
              /\ Len(paths_coordinates) = s - 1
              /\ RenderRaised
              /\ LogRecord("error", "Error in lambda_handler", k) \in log
              /\ imgCalls = <<>>
              /\ ~HasMap(response_data[k])

C4_Witness ==
    /\ pc = "done"
    /\ \E s \in DOMAIN answered : answered[s] = "noroute"

\* C5: when every segment's directions call succeeds within its attempts
\* (possibly after a rate-limited first attempt), the render succeeds and the
\* i-th path token carries the geometry of the i-th consecutive pair.
SucceedsWithinAttempts(script) ==
    \E a \in 1..3 :
        /\ ServiceAnswer(script, a) = "ok"
        /\ \A b \in 1..(a - 1) : ServiceAnswer(script, b) \in RetryableKinds

C5_RenderSucceedsInPairOrder ==
    (/\ RenderOver
     /\ Len(service) = nSegments
     /\ \A s \in DOMAIN service : SucceedsWithinAttempts(service[s])
     /\ image_service \notin {"error", "exception"})
    => /\ RenderReturned
       /\ base64_map # None
       /\ Len(imgCalls) = 1
       /\ Len(PathTokens(imgCalls[1])) = nSegments
       /\ \A i \in 1..nSegments :
             /\ PathTokens(imgCalls[1])[i].of.geometry.from = PairOf(i).start
             /\ PathTokens(imgCalls[1])[i].of.geometry.to = PairOf(i).end

\* C6: the directions calls of one render run concurrently: a render over 3
\* or more stops whose calls have all been answered had two or more of them
\* outstanding at the same time.
C6_DirectionsCallsOverlap ==
    (k >= 1 /\ Len(coordinates) >= 3 /\ Len(paths_coordinates) = nSegments)
        => maxInflight >= 2

\* C7: for a ferry itinerary every directions call and every path token uses
\* driving, and the transport_mode of the itinerary keeps its ferry value in
\* response_data and in the returned body.
DRIVING_COLOR == "2bff00"

C7_FerryDrawnAsDriving ==
    /\ \A j \in 1..Len(response_data) :
          response_data[j].transport_mode = llm_output[j].transport_mode
    /\ (pc = "done" /\ statusCode = 200) =>
          \A j \in 1..Len(llm_output) :
              body[j].transport_mode = llm_output[j].transport_mode
    /\ (k >= 1 /\ lower(llm_output[k].transport_mode) = "ferry") =>
          /\ \A i \in 1..Len(modes) : modes[i] = "driving"
          /\ \A i \in 1..Len(dirCalls) : dirCalls[i].mode = "driving"
          /\ \A c \in 1..Len(imgCalls) :
                \A i \in 1..Len(PathTokens(imgCalls[c])) :
                    /\ PathTokens(imgCalls[c])[i].of.color = DRIVING_COLOR
                    /\ PathTokens(imgCalls[c])[i].of.geometry.mode = "driving"

C7_Witness ==
    /\ pc = "done"
    /\ statusCode = 200
    /\ k >= 1
    /\ llm_output[k].transport_mode = "ferry"
    /\ body[k].transport_mode = "ferry"
    /\ HasMap(body[k])
    /\ Len(dirCalls) = 2
    /\ Len(PathTokens(imgCalls[1])) = 2

\* C8: a transport mode that is none of walking, cycling, driving, ferry
\* after lower-casing is replaced by walking for every segment and a warning
\* is logged; walking, cycling and driving are used as they are; every
\* directions call carries one of walking, cycling, driving.
C8_ModeNormalization ==
    k >= 1 =>
        LET m == lower(llm_output[k].transport_mode)
            warned == LogRecord("warning", "Invalid transport mode", k) \in log
        IN /\ (Len(coordinates) >= 1) => Len(modes) = nSegments
           /\ \A i \in 1..Len(dirCalls) :
                 dirCalls[i].mode \in {"walking", "cycling", "driving"}
           /\ \A i \in 1..Len(dirCalls) : dirCalls[i].mode = modes[i]
           /\ m \notin {"walking", "cycling", "driving", "ferry"} =>
                 /\ \A i \in 1..Len(modes) : modes[i] = "walking"
                 /\ warned
           /\ m \in {"walking", "cycling", "driving"} =>
                 /\ \A i \in 1..Len(modes) : modes[i] = m
                 /\ ~warned

C8_Witness ==
    /\ k >= 1
    /\ llm_output[k].transport_mode = "bus"
    /\ Len(dirCalls) = 2
    /\ dirCalls[2].mode = "walking"
    /\ LogRecord("warning", "Invalid transport mode", k) \in log

\* C9: an itinerary with one stop gets no directions call and exactly one
\* image request, holding one marker token and no path token; when that
\* request is answered 200 the render returns the image.
C9_SingleStopMarkersOnly ==
    (k >= 1 /\ Len(coordinates) = 1) =>
        /\ dirCalls = <<>>
        /\ (pc # "static_map_image") =>
              /\ Len(imgCalls) = 1
              /\ Len(MarkerTokens(imgCalls[1])) = 1
              /\ PathTokens(imgCalls[1]) = <<>>
        /\ (RenderOver /\ image_service = "ok") =>
              /\ RenderReturned
              /\ base64_map = b64encode("PNG")
              /\ (pc # "attach") => response_data[k].map_image = base64_map

C9_Witness ==
    /\ k >= 1
    /\ Len(coordinates) = 1
    /\ pc = "done"
    /\ statusCode = 200
    /\ HasMap(body[k])
    /\ Len(imgCalls) = 1

\* C10: when all segment calls succeeded the render sends exactly one image
\* request; a non-2xx answer makes the render return a failure value without
\* raising, and the caller leaves the map image out and goes on.
C10_ImageFetchFailureDegrades ==
    /\ Len(imgCalls) <= 1
    /\ (Len(imgCalls) = 1) <=>
          (k >= 1 /\ Len(paths_coordinates) = nSegments
                  /\ ~(pc = "static_map_image"))
    /\ (Len(imgCalls) = 1) => \A s \in DOMAIN answered : answered[s] = "ok"
    /\ (Len(imgCalls) = 1 /\ image_service = "error") =>
          /\ ~RenderRaised
          /\ base64_map = None
          /\ ~HasMap(response_data[k])
          /\ (pc \in {"loop", "done"}) =>
                /\ k \in failed
                /\ LogRecord("warning", "Failed to generate map", k) \in log

C10_Witness ==
    /\ Len(imgCalls) = 1
    /\ image_service = "error"
    /\ Len(dirCalls) = 2
    /\ pc = "loop"
    /\ k < Len(response_data)
    /\ k \in failed

\* C12: for a coordinate sequence of length n >= 1 encoding_points yields
\* one start-style token, one end-style token (for n = 1 the single token is
\* both) and max(n - 2, 0) waypoint tokens labeled by their 1-based position;
\* for the empty sequence it yields the empty string.
IsStartStyle(a) == a.size = "l" /\ a.color = "26a269"
IsEndStyle(a) == a.size = "l" /\ a.color = "ff0000"
IsWaypointStyle(a) == a.size = "s" /\ a.color = "555555"
CountOf(toks, P(_)) == Cardinality({i \in 1..Len(toks) : P(toks[i])})

MarkersAsClaimed(out, coords, Label(_)) ==
    LET n == Len(coords)
        toks == SelectSeq(out, IsMarkerToken)
    IN /\ (n = 0) => out = <<>>
       /\ Len(toks) = n
       /\ \A i \in 1..n : toks[i].lon = coords[i][1] /\ toks[i].lat = coords[i][2]
       /\ (n >= 1) => /\ IsStartStyle(toks[1])
                      /\ CountOf(toks, IsStartStyle) = 1
       /\ (n >= 2) => /\ IsEndStyle(toks[n])
                      /\ CountOf(toks, IsEndStyle) = 1
       /\ (n = 1) => CountOf(toks, IsEndStyle) = 0
       /\ CountOf(toks, IsWaypointStyle) = (IF n >= 2 THEN n - 2 ELSE 0)
       /\ \A i \in 2..(n - 1) : IsWaypointStyle(toks[i])
       /\ \A i \in 1..n : toks[i].label = Label(i)

NumberLabel(i) == i
LetterLabel(i) == [chr |-> 96 + i]

C12_MarkerTokens ==
    (enc_pc = "done" /\ enc_task = "points") =>
        /\ MarkersAsClaimed(encoded_points, enc_coordinates, NumberLabel)
        /\ MarkersAsClaimed(encoded_points_zops, enc_coordinates, LetterLabel)

C12_Witness ==
    /\ enc_pc = "done"
    /\ enc_task = "points"
    /\ Len(enc_coordinates) = 4
    /\ Len(encoded_points) = 7

\* C13: for geometries and modes of equal length encoding_path yields one
\* path token per pair, in input order, each with the fixed stroke width and
\* the color of its mode (walking blue, cycling red, driving green), or no
\* color of its own for a mode outside the table.
ModeColor(m) ==
    CASE m = "walking" -> "0000ff"
      [] m = "cycling" -> "ff0000"
      [] m = "driving" -> "2bff00"
      [] OTHER -> ""

IsPath(a) == a.t = "path"

C13_PathTokens ==
    (enc_pc = "done" /\ enc_task = "paths") =>
        LET n == Len(enc_paths)
            toks == SelectSeq(encoded_path, IsPath)
        IN /\ Len(toks) = n
           /\ Len(encoded_path) = (IF n = 0 THEN 0 ELSE 2 * n - 1)
           /\ \A i \in 1..n :
                 /\ encoded_path[2 * i - 1] = toks[i]
                 /\ toks[i].geometry = enc_paths[i]
                 /\ toks[i].width = 3
                 /\ toks[i].color = ModeColor(enc_modes[i])

C13_Witness ==
    /\ enc_pc = "done"
    /\ enc_task = "paths"
    /\ Len(enc_paths) = 3
    /\ enc_modes = <<"walking", "bus", "cycling">>
    /\ enc_paths = <<"g1", "g2", "g1">>
    /\ Len(encoded_path) = 5

\* C11: for an itinerary of n >= 1 stops whose calls all succeed there are
\* exactly n-1 directions calls, the i-th from stop i to stop i+1 with each
\* "latitude,longitude" string turned into (longitude, latitude), and then
\* exactly one image request; for two walking stops the request holds one
\* blue path token, a green start marker and a red end marker.
WellFormed(s) == Len(s) = 2 /\ s[1].numeric /\ s[2].numeric
AllWellFormed(itinerary) ==
    \A i \in 1..Len(itinerary.stops) :
        WellFormed(itinerary.stops[i].google_map_coordinates)
LonLat(stop) == <<stop.google_map_coordinates[2].v, stop.google_map_coordinates[1].v>>

C11_CallsFollowTheStops ==
    (k >= 1 /\ AllWellFormed(llm_output[k])) =>
        LET st == llm_output[k].stops
            n == Len(st)
        IN /\ Len(dirCalls) <= n - 1
           /\ Len(imgCalls) <= 1
           /\ \A i \in 1..Len(dirCalls) :
                 /\ dirCalls[i].start = LonLat(st[i])
                 /\ dirCalls[i].end = LonLat(st[i + 1])
           /\ (Len(imgCalls) = 1) => Len(dirCalls) = n - 1
           /\ (RenderReturned /\ image_service = "ok") =>
                 /\ Len(dirCalls) = n - 1
                 /\ Len(imgCalls) = 1
           /\ (Len(imgCalls) = 1 /\ n = 2 /\ lower(llm_output[k].transport_mode) = "walking") =>
                 LET paths == PathTokens(imgCalls[1])
                     pins == MarkerTokens(imgCalls[1])
                 IN /\ dirCalls[1].mode = "walking"
                    /\ Len(paths) = 1
                    /\ paths[1].of.color = "0000ff"
                    /\ paths[1].of.geometry.from = LonLat(st[1])
                    /\ paths[1].of.geometry.to = LonLat(st[2])
                    /\ Len(pins) = 2
                    /\ pins[1].color = "26a269" /\ pins[1].size = "l"
                    /\ <<pins[1].lon, pins[1].lat>> = LonLat(st[1])
                    /\ pins[2].color = "ff0000" /\ pins[2].size = "l"
                    /\ <<pins[2].lon, pins[2].lat>> = LonLat(st[2])
                    /\ imgCalls[1].size = "500x400"

C11_Witness ==
    /\ k >= 1
    /\ Len(llm_output[k].stops) = 2
    /\ llm_output[k].transport_mode = "walking"
    /\ AllWellFormed(llm_output[k])
    /\ Len(dirCalls) = 1
    /\ Len(imgCalls) = 1
    /\ dirCalls[1].start = <<0 - 71, 41>>
    /\ dirCalls[1].end = <<0 - 72, 42>>
    /\ pc = "done"
    /\ statusCode = 200

\* C14: when a stop of an itinerary has a malformed coordinate string the
\* enrichment of that itinerary fails with an input error before any
\* directions or image request is sent for it; no map is made from the other
\* stops and the enrichment is not tried again.
C14_MalformedCoordinateIsFatal ==
    (k >= 1 /\ ~AllWellFormed(llm_output[k])) =>
        /\ dirCalls = <<>>
        /\ imgCalls = <<>>
        /\ service = <<>>
        /\ image_service = "none"
        /\ coordinates = <<>>
        /\ RenderRaised
        /\ body = <<"An error occurred while processing your request", "ValueError">>
        /\ LogRecord("error", "Error in lambda_handler", k) \in log
        /\ k \in failed
        /\ base64_map = None
        /\ ~HasMap(response_data[k])

C14_Witness ==
    /\ k = 2
    /\ HasMap(response_data[1])
    /\ Len(llm_output[2].stops) = 2
    /\ WellFormed(llm_output[2].stops[1].google_map_coordinates)
    /\ ~WellFormed(llm_output[2].stops[2].google_map_coordinates)
    /\ pc = "done"

\* C15 as claimed: enrichment adds at most the map image field; every field
\* of the itinerary and of its stops keeps its value and no other field is
\* added to the itinerary or to its stops.
SameValues(before, after) == \A f \in DOMAIN before : after[f] = before[f]

C15_OnlyMapImageAdded ==
    \A j \in 1..Len(response_data) :
        /\ DOMAIN response_data[j] \subseteq DOMAIN llm_output[j] \cup {"map_image"}
        /\ DOMAIN llm_output[j] \subseteq DOMAIN response_data[j]
        /\ \A f \in DOMAIN llm_output[j] \ {"stops"} :
              response_data[j][f] = llm_output[j][f]
        /\ Len(response_data[j].stops) = Len(llm_output[j].stops)
        /\ \A i \in 1..Len(llm_output[j].stops) :
              /\ DOMAIN response_data[j].stops[i] = DOMAIN llm_output[j].stops[i]
              /\ SameValues(llm_output[j].stops[i], response_data[j].stops[i])

\* C15 as amended: enrichment adds a path_to_next field to every stop and at
\* most the map image field to the itinerary; every field that existed keeps
\* its value and no other field is added.
C15_OnlyMapImageAndPathsAdded ==
    \A j \in 1..Len(response_data) :
        /\ DOMAIN response_data[j] \subseteq DOMAIN llm_output[j] \cup {"map_image"}
        /\ DOMAIN llm_output[j] \subseteq DOMAIN response_data[j]
        /\ \A f \in DOMAIN llm_output[j] \ {"stops"} :
              response_data[j][f] = llm_output[j][f]
        /\ Len(response_data[j].stops) = Len(llm_output[j].stops)
        /\ \A i \in 1..Len(llm_output[j].stops) :
              /\ DOMAIN response_data[j].stops[i] =
                    DOMAIN llm_output[j].stops[i]
                        \cup (IF j <= k THEN {"path_to_next"} ELSE {})
              /\ SameValues(llm_output[j].stops[i], response_data[j].stops[i])
        /\ (j > k) => ~HasMap(response_data[j])

C15_Witness ==
    /\ pc = "done"
    /\ statusCode = 200
    /\ k = 2
    /\ Len(body[1].stops) = 3
    /\ HasMap(body[1])
    /\ ~HasMap(body[2])
    /\ "path_to_next" \in DOMAIN body[1].stops[1]
    /\ body[1].stops[3].path_to_next = None

----------------------------------------------------------------------------
\* Vocabulary of the email handler's properties.

\* The body does not fit the request schema: it is not an object, or a field
\* of it is not valid.
FailsSchema(b) == b.t # "invalid" /\ (b.t # "dict" \/ ~EmailStr(b.email))

EmailRequestOver(i) == i < Len(em_history) \/ em_pc = "idle"

RowOf(h) ==
    {r \in DOMAIN em_rows :
        /\ em_rows[r].id = h.itinerary_id.v
        /\ em_rows[r].email = h.request.email
        /\ em_rows[r].itinerary_data = json_dumps(h.request.itinerary)}

SavesSucceeded == {i \in DOMAIN em_history : em_history[i].save = "ok"}

\* C16: in the email handler an email is sent only after the row was saved and
\* a non-empty id returned; a failed save answers 500 and sends nothing; 200 is
\* answered only when both the save and the send succeeded; and a request whose
\* body is invalid JSON or fails schema validation answers 400 with neither a
\* save nor a send.
C16_SaveThenSend ==
    /\ (em_pc = "send") =>
           /\ ~not_(em_current.itinerary_id)
           /\ RowOf(em_current) # {}
    /\ Len(em_sent) = Cardinality({i \in DOMAIN em_history :
                                      em_history[i].send = "sent"})
    /\ \A i \in DOMAIN em_history :
         LET h == em_history[i]
         IN  /\ (h.send = "sent") =>
                    /\ h.save = "ok"
                    /\ ~not_(h.itinerary_id)
                    /\ RowOf(h) # {}
             /\ (h.save = "failed") => (h.statusCode = 500 /\ h.send = "none")
             /\ (h.statusCode = 200) => (h.save = "ok" /\ h.send = "sent")
             /\ (h.request.t = "invalid" \/ FailsSchema(h.request)) =>
                    /\ h.statusCode = 400
                    /\ h.save = "none"
                    /\ h.send = "none"

\* C19: the number of saved rows equals the number of requests whose save
\* succeeded, whatever the send did: a request answered 500 "Failed to send
\* email" keeps its committed row, and the same request repeated after a send
\* failure gets a second row for the same email and itinerary.
C19_RowsCountSuccessfulSaves ==
    /\ Len(em_rows) = Cardinality(SavesSucceeded)
    /\ \A i \in SavesSucceeded : RowOf(em_history[i]) # {}
    /\ \A i, j \in SavesSucceeded :
         (i # j) => (em_history[i].itinerary_id # em_history[j].itinerary_id)
    /\ \A r, q \in DOMAIN em_rows :
         (r # q) => (em_rows[r].id # em_rows[q].id)

C19_Witness ==
    \E i, j \in DOMAIN em_history :
        /\ i < j
        /\ em_history[i].request = em_history[j].request
        /\ em_history[i].statusCode = 500
        /\ em_history[i].body = "Failed to send email"
        /\ em_history[j].save = "ok"
        /\ RowOf(em_history[i]) # {}
        /\ Len(em_rows) = 2
        /\ em_rows[1].email = em_rows[2].email
        /\ em_rows[1].itinerary_data = em_rows[2].itinerary_data

----------------------------------------------------------------------------
\* Vocabulary of the feedback handler's properties.

\* The value the request gives for a parameter, None when it gives none.
ParameterOf(e, name) ==
    IF ~e.has_queryStringParameters \/ e.queryStringParameters = None
    THEN None
    ELSE IF name = "itinerary_id" THEN e.queryStringParameters.itinerary_id
    ELSE e.queryStringParameters.feedback

IsPresent(x) == x # None /\ x.s # ""

IsLikeOrDislike(x) == x.s \in {"like", "Like", "LIKE", "dislike", "Dislike", "DISLIKE"}

ValidFeedbackRequest(e) ==
    /\ IsPresent(ParameterOf(e, "itinerary_id"))
    /\ IsPresent(ParameterOf(e, "feedback"))
    /\ IsLikeOrDislike(ParameterOf(e, "feedback"))

FeedbackRequestOver(i) == i < Len(fb_history) \/ fb_pc = "idle"

RECURSIVE CommittedUpTo(_)
CommittedUpTo(i) ==
    IF i = 0 THEN 0 ELSE fb_history[i].committed + CommittedUpTo(i - 1)

\* C17: the feedback handler commits a row only when itinerary_id and feedback
\* are both present and feedback is like or dislike in any case; a missing
\* parameter or another feedback value answers 400 and writes nothing; a valid
\* request commits exactly one row and answers 200; an exception during the
\* insert is rolled back, leaves no row and answers 500.
C17_FeedbackCommittedOnlyWhenValid ==
    /\ Len(fb_rows) = CommittedUpTo(Len(fb_history))
    /\ (fb_pc = "idle") => (fb_session = <<>>)
    /\ \A i \in DOMAIN fb_history :
         LET h == fb_history[i]
         IN  /\ (h.committed > 0) => ValidFeedbackRequest(h.event)
             /\ (FeedbackRequestOver(i) /\ ~ValidFeedbackRequest(h.event)) =>
                    (h.statusCode = 400 /\ h.committed = 0)
             /\ (FeedbackRequestOver(i) /\ ValidFeedbackRequest(h.event)) =>
                    \/ h.statusCode = 200 /\ h.committed = 1
                    \/ h.statusCode = 500 /\ h.committed = 0
             /\ (h.statusCode = 200) => (h.committed = 1)

\* C18: whatever the event (no queryStringParameters key, a null value for
\* it, an itinerary_id that is not a number), the feedback handler returns a
\* response with status 200, 400 or 500 and never ends with an unhandled
\* exception.
C18_FeedbackAlwaysAnswers ==
    \A i \in DOMAIN fb_history :
        FeedbackRequestOver(i) =>
            /\ fb_history[i].raised = ""
            /\ fb_history[i].statusCode \in {200, 400, 500}

====
